---- MODULE Spec2Model ----
(***************************************************************************)
(* pc::scoped_exit<F> (header/scoped_exit.hxx) used as in sample/run.cxx:  *)
(* one lexical scope inside a try block, guards declared in it, the body   *)
(* either completes, returns early or throws, the guards are destroyed in  *)
(* reverse order of declaration, and the enclosing handler catches what    *)
(* leaves the scope.                                                       *)
(***************************************************************************)
EXTENDS Integers, Sequences, FiniteSets, TLC

\* Largest number of guards declared in the scope.
MaxGuards == 2

\* The policy a call site selects: none given (run.cxx:12,26,49) or the
\* token of run.cxx:87.
CheckUnwindState == "check_for_uncaught_exceptions"
AlwaysRun == "dont_check_for_uncaught_exceptions"
Modes == {CheckUnwindState, AlwaysRun}

\* The callables F of the call sites: whether F is declared noexcept and
\* whether its body throws after writing to std::cout.
\*   run.cxx:13  noexcept, does not throw      run.cxx:26  noexcept(false), throws
\*   run.cxx:50  not noexcept, does not throw  run.cxx:10  noexcept, throws
Callables == [nothrow : BOOLEAN, throws : BOOLEAN]

NoFailure == [kind |-> "none", by |-> 0]
PrimaryFailure == [kind |-> "primary", by |-> 0]
CleanupFailure(g) == [kind |-> "cleanup", by |-> g]

VARIABLES
    pc,        \* where control is: body, exiting, unwinding, done, caught, terminated
    guards,    \* the guards declared in the scope, in declaration order
    inflight,  \* the exception propagating, NoFailure when none
    observed,  \* the exception the enclosing handler caught
    out,       \* the guards whose action wrote to std::cout, in order
    exitPath   \* how control left the body: none, normal, return, failure

vars == <<pc, guards, inflight, observed, out, exitPath>>

\* std::is_nothrow_invocable_v<F>
is_nothrow_invocable(f) == f.nothrow

\* std::uncaught_exceptions() > 0
Unwinding == inflight.kind # "none"

\* scoped_exit(F&& f) : f(std::forward<F>(f)) {}  stores f and nothing else.
\* mode is the policy the call site asked for (run.cxx:87); the header keeps
\* no such member and the destructor never reads it.  state, calls and
\* unwound record the guard's lifetime, the invocations of f and whether an
\* exception was propagating when the destructor ran.
scoped_exit_invoking(f, m) ==
    [f |-> f, mode |-> m, state |-> "Armed", calls |-> 1, unwound |-> FALSE]

scoped_exit(f, m) ==
    [f |-> f, mode |-> m, state |-> "Armed", calls |-> 0, unwound |-> FALSE]

\* Whether ~scoped_exit calls f: it does, whatever the mode and the unwind state.
ShouldInvoke_checked(m, unwinding) == m = AlwaysRun \/ ~unwinding

ShouldInvoke(m, unwinding) == TRUE

\* What the call f() inside ~scoped_exit noexcept(is_nothrow_invocable_v<F>)
\* ends in: f returns; or an exception meets a noexcept boundary, or leaves
\* the destructor while another one is propagating (std::terminate); or it
\* leaves the destructor and propagates.
InvokeOutcome_unchecked(f, unwinding) ==
    IF ~f.throws THEN "return"
    ELSE IF unwinding THEN "terminate"
    ELSE "propagate"

InvokeOutcome(f, unwinding) ==
    IF ~f.throws THEN "return"
    ELSE IF is_nothrow_invocable(f) THEN "terminate"
    ELSE IF unwinding THEN "terminate"
    ELSE "propagate"

\* The guard after its destructor ran.
Destruct_rearmed(gd, invoked, unwinding) ==
    [gd EXCEPT !.calls = IF invoked THEN @ + 1 ELSE @,
               !.unwound = unwinding]

Destruct(gd, invoked, unwinding) ==
    [gd EXCEPT !.state = "Fired",
               !.calls = IF invoked THEN @ + 1 ELSE @,
               !.unwound = unwinding]

Armed(gs) == {g \in DOMAIN gs : gs[g].state = "Armed"}

\* Automatic objects are destroyed in reverse order of declaration.
NextToDestroy_fifo(gs) == CHOOSE g \in Armed(gs) : \A h \in Armed(gs) : h >= g

NextToDestroy(gs) == CHOOSE g \in Armed(gs) : \A h \in Armed(gs) : h <= g

Init ==
    /\ pc = "body"
    /\ guards = << >>
    /\ inflight = NoFailure
    /\ observed = NoFailure
    /\ out = << >>
    /\ exitPath = "none"

\* pc::scoped_exit const g{f};  or  pc::scoped_exit const g{f, token};
Construct ==
    /\ pc = "body"
    /\ Len(guards) < MaxGuards
    /\ \E f \in Callables, m \in Modes :
          guards' = Append(guards, scoped_exit(f, m))
    /\ UNCHANGED <<pc, inflight, observed, out, exitPath>>

\* throw std::runtime_error(...) in the body of the scope.
ThrowInBody ==
    /\ pc = "body"
    /\ pc' = "unwinding"
    /\ inflight' = PrimaryFailure
    /\ exitPath' = "failure"
    /\ UNCHANGED <<guards, observed, out>>

\* Control reaches the closing brace of the scope, or returns out of it.
ScopeEnd ==
    /\ pc = "body"
    /\ pc' = "exiting"
    /\ \E path \in {"normal", "return"} : exitPath' = path
    /\ UNCHANGED <<guards, inflight, observed, out>>

\* ~scoped_exit() of the most recently declared guard still alive.
Destroy ==
    /\ pc \in {"exiting", "unwinding"}
    /\ Armed(guards) # {}
    /\ LET g == NextToDestroy(guards)
           invoked == ShouldInvoke(guards[g].mode, Unwinding)
           outcome == IF invoked THEN InvokeOutcome(guards[g].f, Unwinding)
                      ELSE "return"
       IN /\ guards' = [guards EXCEPT ![g] = Destruct(@, invoked, Unwinding)]
          /\ out' = IF invoked THEN Append(out, g) ELSE out
          /\ pc' = CASE outcome = "terminate" -> "terminated"
                     [] outcome = "propagate" -> "unwinding"
                     [] OTHER -> pc
          /\ inflight' = IF outcome = "propagate" THEN CleanupFailure(g)
                         ELSE inflight
    /\ UNCHANGED <<observed, exitPath>>

\* The scope is left with no exception: the try block completes.
Finish ==
    /\ pc = "exiting"
    /\ Armed(guards) = {}
    /\ pc' = "done"
    /\ UNCHANGED <<guards, inflight, observed, out, exitPath>>

\* catch (std::runtime_error const& ex) of the enclosing try block.
Catch ==
    /\ pc = "unwinding"
    /\ Armed(guards) = {}
    /\ pc' = "caught"
    /\ observed' = inflight
    /\ inflight' = NoFailure
    /\ UNCHANGED <<guards, out, exitPath>>

Next ==
    \/ Construct
    \/ ThrowInBody
    \/ ScopeEnd
    \/ Destroy
    \/ Finish
    \/ Catch

Spec == Init /\ [][Next]_vars

(***************************************************************************)
(* Properties                                                              *)
(***************************************************************************)

Guards == DOMAIN guards

\* The action of guard g lets an exception leave the call f().
Raises(g) == guards[g].f.throws /\ ~guards[g].f.nothrow

\* C1: for a guard in the default mode, when the body of the scope throws,
\* the action is not invoked as the guard is destroyed during unwinding, the
\* process does not terminate and the handler observes the body's exception.
C1_SkipOnUnwind ==
    \A g \in Guards :
        (guards[g].mode = CheckUnwindState /\ exitPath = "failure") =>
            /\ guards[g].calls = 0
            /\ pc # "terminated"
            /\ (pc = "caught" => observed = PrimaryFailure)

C3_ExactlyOnceNoFailure ==
    \A g \in Guards :
        /\ (guards[g].state = "Armed" => guards[g].calls = 0)
        /\ (pc = "body" => guards[g].calls = 0)
        /\ ((guards[g].state = "Fired" /\ ~guards[g].unwound) =>
               guards[g].calls = 1)
        /\ (pc = "done" => guards[g].calls = 1)

C3_Witness ==
    /\ pc = "done"
    /\ Len(guards) >= 1
    /\ \A g \in Guards : guards[g].calls = 1 /\ ~guards[g].unwound

\* C4: in either mode, when a guard is destroyed with no exception
\* propagating and its action raises, the action's output has been written,
\* and that exception leaves the destructor and is the one the enclosing
\* handler observes.
C4_CleanupFailureObserved ==
    \A g \in Guards :
        (guards[g].state = "Fired" /\ ~guards[g].unwound /\ Raises(g)) =>
            /\ \E i \in DOMAIN out : out[i] = g
            /\ pc \in {"unwinding", "caught"}
            /\ (pc = "unwinding" => inflight = CleanupFailure(g))
            /\ (pc = "caught" => observed = CleanupFailure(g))

\* C5: the actions of the guards of one scope run in strict reverse order of
\* declaration: a guard's action runs only after the action of every guard
\* declared after it has run and finished.
C5_ReverseOrder ==
    /\ \A i, j \in DOMAIN out : i < j => out[i] > out[j]
    /\ \A g, h \in Guards :
          (g < h /\ guards[g].calls > 0) => guards[h].state = "Fired"

C5_Witness == Len(out) >= 2 /\ out[1] = 2 /\ out[2] = 1

\* C6: whenever the body of the scope throws, for every mode and every
\* action, the process never terminates and the handler observes the body's
\* exception, never one raised by an action.
C6_NoDualFailure ==
    exitPath = "failure" =>
        /\ pc # "terminated"
        /\ inflight.kind # "cleanup"
        /\ (pc = "caught" => observed = PrimaryFailure)

C8_NothrowNeverEscapes ==
    \A g \in Guards :
        is_nothrow_invocable(guards[g].f) =>
            /\ inflight # CleanupFailure(g)
            /\ observed # CleanupFailure(g)

C8_Witness ==
    \E g \in Guards :
        /\ is_nothrow_invocable(guards[g].f)
        /\ guards[g].f.throws
        /\ guards[g].state = "Fired"
        /\ ~guards[g].unwound

\* C10: a guard is Armed from its construction, its destruction makes it
\* Fired whether or not the action raised, a Fired guard never changes again,
\* and the action is invoked only by the step from Armed to Fired.
C10_TwoState ==
    [][/\ \A g \in Guards :
             /\ g \in DOMAIN guards'
             /\ guards[g].state \in {"Armed", "Fired"}
             /\ (guards[g].state = "Fired" => guards'[g] = guards[g])
             /\ (guards'[g] # guards[g] =>
                    /\ guards[g].state = "Armed"
                    /\ guards'[g].state = "Fired"
                    /\ guards'[g].calls \in {guards[g].calls,
                                             guards[g].calls + 1})
       /\ \A g \in DOMAIN guards' \ Guards :
             guards'[g].state = "Armed" /\ guards'[g].calls = 0]_vars

C10_Witness ==
    /\ pc = "caught"
    /\ \E g \in Guards :
          guards[g].state = "Fired" /\ Raises(g) /\ observed = CleanupFailure(g)

====
